---- MODULE Spec2Model ----
(***************************************************************************)
(* Model of the mind-map layout of src/src/components/mind-map.tsx:       *)
(* the recursive layout generateMindMapNodesAndEdges, the collapse set    *)
(* kept by the MindMap component, its onToggle callback and the collapse  *)
(* handle of CustomNode that calls it.                                    *)
(*                                                                         *)
(* Positions are pixels.  Every y the layout produces is a multiple of    *)
(* nodeHeight / 2^k where k is the number of nested centring steps that   *)
(* halve an odd multiple; k steps need a tree of 2k + 1 nodes, and        *)
(* nodeHeight = 2^3 * 15, so for trees of up to 8 nodes every centring    *)
(* division is exact and integer arithmetic is the arithmetic of the      *)
(* JavaScript numbers (ParentCentred checks 2 * y = first + last).        *)
(***************************************************************************)
EXTENDS Integers, Sequences, FiniteSets, TLC

VARIABLES
  data,            \* the tree given to MindMap (prop `data`)
  collapsedNodes,  \* useState<Set<string>>: the collapse set
  nodes,           \* useMemo result: the laid-out nodes, in emission order
  edges,           \* useMemo result: the edges, in emission order
  history          \* auxiliary: the last toggles, newest first, each with the
                   \* id toggled and the state it was applied to

vars == <<data, collapsedNodes, nodes, edges, history>>

(***************************************************************************)
(* Bounds of the exploration.                                              *)
(***************************************************************************)
MaxNodes == 5      \* trees have at most this many nodes
HistoryLen == 3    \* toggles remembered in `history`

(***************************************************************************)
(* Program constants.                                                      *)
(***************************************************************************)
nodeHeight == 120
levelWidth == 300

\* `parentId: string | null = null`.  The code only tests parentId for
\* truthiness, and null and "" are both falsy; no id is "".
null == ""

(***************************************************************************)
(* MindMapData: { text: string; children?: MindMapData[] }.               *)
(* A tree is a record with field text and, optionally, field children (a  *)
(* sequence of trees).                                                     *)
(***************************************************************************)
RECURSIVE TreeShapes(_), ForestShapes(_)
\* The shapes of the trees with exactly n nodes; a shape is the sequence of
\* the shapes of the children.
TreeShapes(n) ==
  IF n = 0 THEN {} ELSE ForestShapes(n - 1)

\* The sequences of tree shapes with n nodes in total.
ForestShapes(n) ==
  IF n = 0 THEN { <<>> }
  ELSE UNION { { <<t>> \o f : t \in TreeShapes(k), f \in ForestShapes(n - k) } : k \in 1..n }

RECURSIVE ShapeSize(_, _)
\* Number of nodes of the children shape[i..] plus their descendants.
ShapeSize(shape, i) ==
  IF i > Len(shape) THEN 0
  ELSE 1 + ShapeSize(shape[i], 1) + ShapeSize(shape, i + 1)

Letters == <<"A", "B", "C", "D", "E", "F", "G", "H">>

\* The text of the k-th node in preorder: texts are pairwise distinct.
TextOf(k) == IF k <= Len(Letters) THEN Letters[k] ELSE "T" \o ToString(k)

RECURSIVE MkTree(_, _, _), MkChildren(_, _, _, _)
\* The tree of a shape, its nodes labelled in preorder from `start`.  With
\* `absent` a leaf has no children field, otherwise an empty children array.
MkTree(shape, start, absent) ==
  IF Len(shape) = 0
  THEN IF absent THEN [text |-> TextOf(start)]
       ELSE [text |-> TextOf(start), children |-> <<>>]
  ELSE [text |-> TextOf(start), children |-> MkChildren(shape, 1, start + 1, absent)]

MkChildren(shape, i, start, absent) ==
  IF i > Len(shape) THEN <<>>
  ELSE <<MkTree(shape[i], start, absent)>>
         \o MkChildren(shape, i + 1, start + 1 + ShapeSize(shape[i], 1), absent)

\* `data = { text: "Root" }`: the default of the MindMap prop.
DefaultData == [text |-> "Root"]

\* The trees MindMap is given: every shape of at most MaxNodes nodes, with
\* leaves in either form, and the default tree.
Inputs ==
  { MkTree(s, 1, a) : s \in UNION { TreeShapes(n) : n \in 1..MaxNodes }, a \in BOOLEAN }
    \cup { DefaultData }

(***************************************************************************)
(* generateMindMapNodesAndEdges                                            *)
(***************************************************************************)
\* Mutant of HasChildren: `!!data.children`, the length test forgotten.
HasChildren_AnyArray(d) == "children" \in DOMAIN d

\* `!!data.children && data.children.length > 0`
HasChildren(d) == "children" \in DOMAIN d /\ Len(d.children) > 0

\* Mutant of NodeId: `${parentId}${index}`, the separator forgotten.
NodeId_NoSeparator(parentId, index) ==
  IF parentId # null /\ parentId # "" THEN parentId \o ToString(index) ELSE "n0"

\* `${parentId}-${index}` for a child, "n0" for the root.
NodeId(parentId, index) ==
  IF parentId # null /\ parentId # "" THEN parentId \o "-" \o ToString(index) ELSE "n0"

\* The node object pushed on `nodes` (onToggle, type and the handle
\* positions are the same for every node and carry no state).
MkNode(id, level, y, d, hasChildren, isCollapsed) ==
  [ id |-> id,
    position |-> [x |-> level * levelWidth, y |-> y],
    data |-> [label |-> d.text, hasChildren |-> hasChildren, isCollapsed |-> isCollapsed],
    className |-> "custom-node level-" \o ToString(level) ]

\* The edge object pushed on `edges`.
MkEdge(parentId, nodeId) ==
  [ id |-> "e" \o parentId \o "-" \o nodeId, source |-> parentId, target |-> nodeId ]

\* Mutant of PushEdge: the edge is pushed without the `if (parentId)`.
PushEdge_Always(es, parentId, nodeId) == Append(es, MkEdge(parentId, nodeId))

\* `if (parentId) edges.push(...)`
PushEdge(es, parentId, nodeId) ==
  IF parentId # null /\ parentId # "" THEN Append(es, MkEdge(parentId, nodeId)) ELSE es

RECURSIVE FindFrom(_, _, _)
\* Array.prototype.find from index i: the index of the first node with the
\* id, 0 when there is none (find returns undefined).
FindFrom(ns, id, i) ==
  IF i > Len(ns) THEN 0
  ELSE IF ns[i].id = id THEN i ELSE FindFrom(ns, id, i + 1)

\* `nodes.find((n) => n.id === id)?.position.y || yOffset`: undefined and 0
\* are falsy and give yOffset.
ChildY(ns, id, yOffset) ==
  LET i == FindFrom(ns, id, 1) IN
    IF i = 0 THEN yOffset
    ELSE IF ns[i].position.y = 0 THEN yOffset ELSE ns[i].position.y

\* Mutant of ShouldExpand: `if (hasChildren)`, the collapse set ignored.
ShouldExpand_IgnoreCollapse(hasChildren, isCollapsed) == hasChildren

\* `if (hasChildren && !isCollapsed)`: the subtree is laid out, otherwise
\* the node is a single row.
ShouldExpand(hasChildren, isCollapsed) == hasChildren /\ ~isCollapsed

\* Mutant of Advance: `currentY += nodeHeight`, every child taken for one row.
Advance_OneRow(currentY, height) == currentY + nodeHeight

\* Mutant of Advance: the offset is not accumulated.
Advance_Stuck(currentY, height) == currentY

\* `currentY += childResult.height`
Advance(currentY, height) == currentY + height

\* Mutant of CenterY: the parent is aligned with its first child.
CenterY_First(firstChildY, lastChildY) == firstChildY

\* `(firstChildY + lastChildY) / 2`
CenterY(firstChildY, lastChildY) == (firstChildY + lastChildY) \div 2

RECURSIVE generateMindMapNodesAndEdges(_, _, _, _, _, _, _, _), forEachChild(_, _, _, _, _, _, _, _)
\* The layout of the subtree d.  ns and es are the shared arrays, passed on
\* and returned; the result is [nodes, edges, height].
generateMindMapNodesAndEdges(d, collapsed, parentId, ns, es, level, index, yOffset) ==
  LET nodeId == NodeId(parentId, index)
      isCollapsed == nodeId \in collapsed
      hasChildren == HasChildren(d)
  IN
    IF ShouldExpand(hasChildren, isCollapsed)
    THEN
      LET r == forEachChild(d.children, 1, collapsed, nodeId, ns, es, level, yOffset)
          totalHeight == r.height
          firstChildY == ChildY(r.nodes, nodeId \o "-" \o ToString(0), yOffset)
          lastChildIndex == Len(d.children) - 1
          lastChildY == ChildY(r.nodes, nodeId \o "-" \o ToString(lastChildIndex), yOffset)
          centerY == CenterY(firstChildY, lastChildY)
      IN [ nodes |-> Append(r.nodes, MkNode(nodeId, level, centerY, d, hasChildren, isCollapsed)),
           edges |-> PushEdge(r.edges, parentId, nodeId),
           height |-> totalHeight ]
    ELSE
      [ nodes |-> Append(ns, MkNode(nodeId, level, yOffset, d, hasChildren, isCollapsed)),
        edges |-> PushEdge(es, parentId, nodeId),
        height |-> nodeHeight ]

\* `data.children.forEach((child, childIndex) => ...)` from the child at
\* position i (childIndex = i - 1), with currentY the running offset.  The
\* result is [nodes, edges, height], height the sum of childHeights.
forEachChild(children, i, collapsed, nodeId, ns, es, level, currentY) ==
  IF i > Len(children) THEN [nodes |-> ns, edges |-> es, height |-> 0]
  ELSE
    LET childResult == generateMindMapNodesAndEdges(children[i], collapsed, nodeId,
                                                    ns, es, level + 1, i - 1, currentY)
        rest == forEachChild(children, i + 1, collapsed, nodeId, childResult.nodes,
                             childResult.edges, level, Advance(currentY, childResult.height))
    IN [rest EXCEPT !.height = childResult.height + rest.height]

\* `generateMindMapNodesAndEdges(data, collapsedNodes, onToggle)` of the
\* useMemo: the defaults are parentId = null, empty arrays, level 0, index 0,
\* yOffset 0.
Layout(d, collapsed) ==
  generateMindMapNodesAndEdges(d, collapsed, null, <<>>, <<>>, 0, 0, 0)

(***************************************************************************)
(* MindMap: collapse state and toggle                                      *)
(***************************************************************************)
\* Mutant of ToggleSet: the id is added and never deleted.
ToggleSet_AddOnly(prev, id) == prev \cup {id}

\* Mutant of ToggleSet: `next.clear()` in place of `next.delete(id)`.
ToggleSet_Clear(prev, id) ==
  IF id \in prev THEN {} ELSE prev \cup {id}

\* The updater of setCollapsedNodes: a copy of prev with id flipped.
ToggleSet(prev, id) ==
  IF id \in prev THEN prev \ {id} ELSE prev \cup {id}

\* The state a toggle is applied to, kept in `history`.
Snapshot(id) ==
  [id |-> id, collapsedNodes |-> collapsedNodes, nodes |-> nodes, edges |-> edges]

\* onToggle(id) followed by the re-render: the collapse set is replaced and
\* the useMemo recomputes nodes and edges from it.  `keep` is the number of
\* toggles `history` remembers.
onToggle(id, keep) ==
  LET next == ToggleSet(collapsedNodes, id)
      r == Layout(data, next)
  IN /\ collapsedNodes' = next
     /\ nodes' = r.nodes
     /\ edges' = r.edges
     /\ history' = SubSeq(<<Snapshot(id)>> \o history, 1,
                          IF Len(history) < keep THEN Len(history) + 1 ELSE keep)
     /\ UNCHANGED data

\* CustomNode: the collapse handle is rendered for a node with hasChildren
\* and its onClick calls onToggle(id) with the node's id.
Click(i) ==
  /\ i \in 1..Len(nodes)
  /\ nodes[i].data.hasChildren
  /\ onToggle(nodes[i].id, HistoryLen)

Init ==
  /\ data \in Inputs
  /\ collapsedNodes = {}
  /\ nodes = Layout(data, {}).nodes
  /\ edges = Layout(data, {}).edges
  /\ history = <<>>

Next == \E i \in 1..Len(nodes) : Click(i)

Spec == Init /\ [][Next]_vars

(***************************************************************************)
(* The tree, read independently of the layout: paths, ids, visibility.    *)
(***************************************************************************)
\* The children of a tree node; none when the field is absent.
Kids(d) == IF "children" \in DOMAIN d THEN d.children ELSE <<>>

RECURSIVE Paths(_)
\* The paths (sequences of 0-based child indices) of the nodes of d.
Paths(d) ==
  { <<>> } \cup
  UNION { { <<i - 1>> \o q : q \in Paths(Kids(d)[i]) } : i \in 1..Len(Kids(d)) }

RECURSIVE Sub(_, _)
\* The subtree of d at path p.
Sub(d, p) == IF Len(p) = 0 THEN d ELSE Sub(Kids(d)[p[1] + 1], Tail(p))

RECURSIVE PathId(_)
\* The id of the node at path p: "n0" for the root, the parent's id, "-"
\* and the index for a child.
PathId(p) ==
  IF Len(p) = 0 THEN "n0"
  ELSE PathId(SubSeq(p, 1, Len(p) - 1)) \o "-" \o ToString(p[Len(p)])

\* q is a proper ancestor of p.
Above(q, p) == Len(q) < Len(p) /\ SubSeq(p, 1, Len(q)) = q

\* The node at p is visible under collapse set C: no proper ancestor is
\* collapsed (a proper ancestor has children).
Visible(C, p) == \A k \in 0..(Len(p) - 1) : PathId(SubSeq(p, 1, k)) \notin C

VisiblePaths(d, C) == { p \in Paths(d) : Visible(C, p) }

\* The node at p is a single row under C: a leaf, or collapsed.
LeafRow(d, C, p) == Len(Kids(Sub(d, p))) = 0 \/ PathId(p) \in C

\* The ids of the visible proper descendants of the node at p under C.
VisibleBelow(d, C, p) == { PathId(q) : q \in { r \in VisiblePaths(d, C) : Above(p, r) } }

Ids(ns) == { ns[i].id : i \in 1..Len(ns) }

\* The emitted node with the given id.
NodeOf(ns, id) == ns[CHOOSE i \in 1..Len(ns) : ns[i].id = id]

Y(ns, p) == NodeOf(ns, PathId(p)).position.y

\* The tree A(B, C(D, E)), its leaves in either form.
ScenarioShape == << <<>>, << <<>>, <<>> >> >>
IsScenario == data \in { MkTree(ScenarioShape, 1, a) : a \in BOOLEAN }

(***************************************************************************)
(* Properties                                                              *)
(***************************************************************************)
\* C1: the layout has exactly one node per visible tree node and exactly
\* one edge per visible non-root node, from the parent's id to the node's
\* id: k visible nodes give k nodes and k - 1 edges, none for a hidden node.
OneNodePerVisible ==
  LET V == VisiblePaths(data, collapsedNodes)
      E == { <<PathId(SubSeq(p, 1, Len(p) - 1)), PathId(p)>> : p \in V \ { <<>> } }
  IN /\ Len(nodes) = Cardinality(V)
     /\ Ids(nodes) = { PathId(p) : p \in V }
     /\ Len(edges) = Cardinality(V) - 1
     /\ { <<edges[i].source, edges[i].target>> : i \in 1..Len(edges) } = E

\* C1 witness: a layout with a collapsed node that hides part of the tree.
OneNodePerVisibleWitness ==
  /\ Len(nodes) >= 3
  /\ Len(nodes) < Cardinality(Paths(data))
  /\ collapsedNodes # {}

\* C2: every emitted node that has children and is not collapsed has
\* y = (y of its first child + y of its last child) / 2, also when a
\* child's y is 0.
ParentCentred ==
  \A p \in VisiblePaths(data, collapsedNodes) :
    LET n == Len(Kids(Sub(data, p))) IN
      (n > 0 /\ PathId(p) \notin collapsedNodes)
        => 2 * Y(nodes, p) = Y(nodes, p \o <<0>>) + Y(nodes, p \o <<n - 1>>)

\* C2 witness: an expanded node below the root whose first child is at
\* y = 0 and whose last child is not, after a toggle.
ParentCentredWitness ==
  /\ Len(history) > 0
  /\ \E p \in VisiblePaths(data, collapsedNodes) :
       LET n == Len(Kids(Sub(data, p))) IN
         /\ Len(p) > 0 /\ n > 1 /\ PathId(p) \notin collapsedNodes
         /\ Y(nodes, p \o <<0>>) = 0
         /\ Y(nodes, p \o <<n - 1>>) > 0

\* The id, label and position of every emitted node.
Placed(ns) ==
  { <<ns[i].id, ns[i].data.label, ns[i].position.x, ns[i].position.y>> : i \in 1..Len(ns) }

\* C3: for A(B, C(D, E)) the uncollapsed layout is n0 A (0, 90),
\* n0-0 B (300, 0), n0-1 C (300, 180), n0-1-0 D (600, 120),
\* n0-1-1 E (600, 240); after toggle("n0-1") D and E have no node or edge,
\* C has hasChildren and isCollapsed at y = 120, and A.y = 60.
ScenarioLayout ==
  IsScenario =>
    /\ collapsedNodes = {} =>
          /\ Len(nodes) = 5
          /\ Placed(nodes) = { <<"n0", "A", 0, 90>>, <<"n0-0", "B", 300, 0>>,
                               <<"n0-1", "C", 300, 180>>, <<"n0-1-0", "D", 600, 120>>,
                               <<"n0-1-1", "E", 600, 240>> }
    /\ (Len(history) > 0 /\ history[1].id = "n0-1" /\ history[1].collapsedNodes = {}) =>
          /\ Ids(nodes) = { "n0", "n0-0", "n0-1" }
          /\ \A i \in 1..Len(edges) :
               /\ edges[i].target \notin { "n0-1-0", "n0-1-1" }
               /\ edges[i].source \notin { "n0-1-0", "n0-1-1" }
          /\ NodeOf(nodes, "n0-1").data.hasChildren
          /\ NodeOf(nodes, "n0-1").data.isCollapsed
          /\ NodeOf(nodes, "n0-1").position.y = 120
          /\ NodeOf(nodes, "n0").position.y = 60

\* C3 witness: the scenario tree right after toggle("n0-1") on the empty
\* collapse set.
ScenarioLayoutWitness ==
  /\ IsScenario
  /\ Len(history) > 0 /\ history[1].id = "n0-1" /\ history[1].collapsedNodes = {}

\* C4: two toggles of the same id in a row give back the collapse set and
\* the layout (nodes and edges) of before the two toggles.
DoubleToggleRestores ==
  (Len(history) >= 2 /\ history[1].id = history[2].id) =>
    /\ collapsedNodes = history[2].collapsedNodes
    /\ nodes = history[2].nodes
    /\ edges = history[2].edges

\* C4 witness: the same id toggled twice in a row, starting from a
\* collapse set that is not empty.
DoubleToggleRestoresWitness ==
  /\ Len(history) >= 2 /\ history[1].id = history[2].id
  /\ history[2].collapsedNodes # {}
  /\ nodes # history[1].nodes

\* The last toggle was of the visible, expanded node with children at p.
CollapsedAt(p) ==
  /\ Len(history) > 0
  /\ history[1].id = PathId(p)
  /\ Visible(history[1].collapsedNodes, p)
  /\ Len(Kids(Sub(data, p))) > 0
  /\ PathId(p) \notin history[1].collapsedNodes

\* C5: toggling a visible, expanded node with children removes exactly the
\* nodes of its visible proper descendants and the edges that lead to
\* them; every other node stays under the same id.
CollapseRemovesSubtree ==
  \A p \in Paths(data) :
    CollapsedAt(p) =>
      LET h == history[1]
          D == VisibleBelow(data, h.collapsedNodes, p)
      IN /\ Ids(nodes) = Ids(h.nodes) \ D
         /\ Len(nodes) = Len(h.nodes) - Cardinality(D)
         /\ { edges[i] : i \in 1..Len(edges) }
              = { h.edges[i] : i \in { j \in 1..Len(h.edges) : h.edges[j].target \notin D } }
         /\ Len(edges) = Len(h.edges) - Cardinality(D)

\* C5 witness: a node below the root with at least two visible proper
\* descendants has just been collapsed.
CollapseRemovesSubtreeWitness ==
  \E p \in Paths(data) :
    /\ CollapsedAt(p)
    /\ Len(p) > 0
    /\ Cardinality(VisibleBelow(data, history[1].collapsedNodes, p)) >= 2


\* C6: the ids of a layout are pairwise distinct, and the node of the tree
\* node at path p has the id of p ("n0", then "-" and the index per step),
\* the same under the collapse set of before the last toggle.
IdsByPath ==
  LET V == VisiblePaths(data, collapsedNodes) IN
    /\ \A i, j \in 1..Len(nodes) : i # j => nodes[i].id # nodes[j].id
    /\ \A p \in V : \E i \in 1..Len(nodes) :
         nodes[i].id = PathId(p) /\ nodes[i].data.label = Sub(data, p).text
    /\ \A i \in 1..Len(nodes) : \E p \in V :
         nodes[i].id = PathId(p) /\ nodes[i].data.label = Sub(data, p).text
    /\ Len(history) > 0 =>
         \A i \in 1..Len(nodes) : \A j \in 1..Len(history[1].nodes) :
           nodes[i].data.label = history[1].nodes[j].data.label
             => nodes[i].id = history[1].nodes[j].id

\* C6 witness: after a toggle, under a collapse set that is not empty, a
\* visible node two levels down that is not a first child.
IdsByPathWitness ==
  /\ Len(history) > 0 /\ collapsedNodes # {}
  /\ \E p \in VisiblePaths(data, collapsedNodes) :
       Len(p) >= 2 /\ p[Len(p)] >= 1 /\ PathId(p) \in Ids(history[1].nodes)

\* The children of the expanded visible node at p that are single rows.
RowKids(p) ==
  { i \in 0..(Len(Kids(Sub(data, p))) - 1) : LeafRow(data, collapsedNodes, p \o <<i>>) }

\* The visible expanded nodes.
Expanded ==
  { p \in VisiblePaths(data, collapsedNodes) :
      Len(Kids(Sub(data, p))) > 0 /\ PathId(p) \notin collapsedNodes }

\* C7 as claimed: under an expanded node, each single-row child is exactly
\* nodeHeight below the single-row child before it.
LeafRowsStepExact ==
  \A p \in Expanded : \A i, j \in RowKids(p) :
    (i < j /\ ~ \E k \in RowKids(p) : i < k /\ k < j)
      => Y(nodes, p \o <<j>>) = Y(nodes, p \o <<i>>) + nodeHeight

RECURSIVE Rows(_)
\* The number of visible single rows in the subtree at p.
Rows(p) ==
  IF LeafRow(data, collapsedNodes, p) THEN 1
  ELSE LET n == Len(Kids(Sub(data, p)))
           RECURSIVE Sum(_)
           Sum(i) == IF i >= n THEN 0 ELSE Rows(p \o <<i>>) + Sum(i + 1)
       IN Sum(0)

RECURSIVE RowsBetween(_, _, _)
\* The visible single rows of the children i+1 .. j-1 of p.
RowsBetween(p, i, j) ==
  IF i + 1 >= j THEN 0 ELSE Rows(p \o <<i + 1>>) + RowsBetween(p, i + 1, j)

\* C7 amended: each single-row child is below the single-row child before
\* it by nodeHeight plus nodeHeight per visible row of the expanded
\* siblings between the two: exactly nodeHeight for adjacent siblings.
LeafRowsStep ==
  \A p \in Expanded : \A i, j \in RowKids(p) :
    (i < j /\ ~ \E k \in RowKids(p) : i < k /\ k < j)
      => Y(nodes, p \o <<j>>)
           = Y(nodes, p \o <<i>>) + nodeHeight * (1 + RowsBetween(p, i, j))

\* C7 witness: after a toggle, an expanded node with two single-row
\* children and an expanded child between them, and one with two adjacent
\* single-row children.
LeafRowsStepWitness ==
  /\ Len(history) > 0
  /\ \E p \in Expanded : \E i, j \in RowKids(p) : j > i + 1 /\ RowsBetween(p, i, j) > 0
  /\ \E p \in Expanded : \E i, j \in RowKids(p) : j = i + 1

\* The toggle history[1] expands the node at a, which history[j] collapsed,
\* when the node at d below a was visible and collapsed, and d is not
\* toggled in between.
Reexposed(a, d, j) ==
  /\ Above(a, d)
  /\ history[1].id = PathId(a) /\ PathId(a) \in history[1].collapsedNodes
  /\ history[j].id = PathId(a) /\ PathId(a) \notin history[j].collapsedNodes
  /\ PathId(d) \in history[j].collapsedNodes
  /\ PathId(d) \in Ids(history[j].nodes)
  /\ \A k \in 2..(j - 1) : history[k].id # PathId(d)

Call(id) == onToggle(id, 1)

NextToggle == \E p \in Paths(data) : Call(PathId(p))

SpecToggle == Init /\ [][NextToggle]_vars

\* What C9 compares of a layout's nodes: id, position and hasChildren.
Shown(ns) ==
  [ i \in 1..Len(ns) |-> <<ns[i].id, ns[i].position, ns[i].data.hasChildren>> ]

\* The last toggle was of the id of the childless node at p.
ToggledLeaf(p) ==
  /\ Len(history) > 0
  /\ history[1].id = PathId(p)
  /\ Len(Kids(Sub(data, p))) = 0

\* C9: toggling the id of a node without children flips the id in the
\* collapse set and leaves node ids, positions, hasChildren flags and
\* edges as they were.
LeafToggleKeepsLayout ==
  \A p \in Paths(data) :
    ToggledLeaf(p) =>
      /\ (PathId(p) \in collapsedNodes) # (PathId(p) \in history[1].collapsedNodes)
      /\ Shown(nodes) = Shown(history[1].nodes)
      /\ edges = history[1].edges

\* C9 witness: a visible leaf that is not a last child has just been
\* toggled into the collapse set.
LeafToggleKeepsLayoutWitness ==
  \E p \in Paths(data) :
    /\ ToggledLeaf(p)
    /\ PathId(p) \in collapsedNodes
    /\ PathId(p) \in Ids(nodes)
    /\ Len(p) > 0
    /\ PathId(SubSeq(p, 1, Len(p) - 1) \o <<p[Len(p)] + 1>>) \in Ids(nodes)

\* C10: two distinct nodes of a layout in the same column (same x) are at
\* least nodeHeight apart in y.
NoOverlap ==
  \A i, j \in 1..Len(nodes) :
    (i # j /\ nodes[i].position.x = nodes[j].position.x)
      => \/ nodes[i].position.y - nodes[j].position.y >= nodeHeight
         \/ nodes[j].position.y - nodes[i].position.y >= nodeHeight

\* C10 witness: after a toggle, two expanded nodes in the same column
\* below the root.
NoOverlapWitness ==
  /\ Len(history) > 0
  /\ \E p, q \in Expanded : p # q /\ Len(p) = Len(q) /\ Len(p) > 0

====
